---- MODULE Spec2Model ----
(***************************************************************************)
(* A model of src/src/util/generate-pnp-map.js: the recursive two-pass     *)
(* visit that builds packageInformationStores, generateMaps (the inverse   *)
(* location map) and the findPackageLocator routine that                   *)
(* generateFindPackageLocator emits.                                       *)
(*                                                                         *)
(* Strings that the code only compares or concatenates (names, versions,   *)
(* references, digests) are TLA+ strings.  Strings that the code indexes   *)
(* (locations, looked-up paths) are sequences of one-character strings; a  *)
(* "pnp-<digest>" path segment is kept as one element of such a sequence.  *)
(* The sha1 digest of a byte stream is represented by the byte stream      *)
(* itself: equal streams give equal digests, different streams different   *)
(* ones.                                                                   *)
(***************************************************************************)
EXTENDS Naturals, Sequences, FiniteSets, TLC

VARIABLES
  sep,                       \* path.sep of the platform the build runs on
  resolver,                  \* the resolver's answer for every pattern
  seedPatterns,              \* the seedPatterns argument of generatePnpMap
  stack,                     \* the activation records of visit, innermost last
  packageInformationStores,  \* the store, one record per entry, in insertion order
  created,                   \* history: how each non-root entry was created
  symlinks,                  \* the aliases fs.symlink has created: <<loc, newLoc>>
  status,                    \* "running", "done", "generated", "error", "depth_exceeded"
  locatorsByLocations,       \* the inverse map baked by generateMaps
  sortedLengths,             \* the lengths findPackageLocator tests, in order
  lockfileFolder,            \* fs.realpath(config.lockfileFolder)
  location,                  \* the argument of the last findPackageLocator call
  match,                     \* the result of the last findPackageLocator call
  pnpApi,                    \* the template, as a sequence of pieces of text
  output,                    \* what generatePnpMap returned
  previous                   \* history: what the call before this one built and returned

vars == <<sep, resolver, seedPatterns, lockfileFolder, stack, packageInformationStores, created,
          symlinks, status, locatorsByLocations, sortedLengths, location, match,
          pnpApi, output, previous>>

(***************************************************************************)
(* Bounds.                                                                 *)
(***************************************************************************)
\* The deepest nesting of visit calls the model follows.
MaxDepth == 6
\* The longest path handed to findPackageLocator.
MaxPathLen == 5

(***************************************************************************)
(* Values.                                                                 *)
(***************************************************************************)
\* The null key of the root entry (name = null, reference = null).
Null == "<null>"
\* The locator the template binds to topLevelLocator.
topLevelLocator == [name |-> Null, reference |-> Null]
\* The null that findPackageLocator returns when nothing matches.
NoLocator == [name |-> "<no match>", reference |-> "<no match>"]
\* The empty Map.
EmptyMap == <<>>
\* Map.prototype.set
MapSet(m, k, v) == [x \in (DOMAIN m) \cup {k} |-> IF x = k THEN v ELSE m[x]]
\* Map.prototype.has
MapHas(m, k) == k \in DOMAIN m

Last(s) == s[Len(s)]
Front(s) == SubSeq(s, 1, Len(s) - 1)

(***************************************************************************)
(* The path module and the location normalisation.                         *)
(***************************************************************************)
\* The characters the platform's path module treats as separators.
IsSep(c, s) == IF s = "/" THEN c = "/" ELSE c \in {"/", "\\"}

RECURSIVE StripTrailingSeps(_, _)
StripTrailingSeps(p, s) ==
  IF Len(p) > 1 /\ IsSep(Last(p), s) THEN StripTrailingSeps(Front(p), s) ELSE p

RECURSIVE DropLastSegment(_, _)
DropLastSegment(p, s) ==
  IF p = <<>> \/ IsSep(Last(p), s) THEN p ELSE DropLastSegment(Front(p), s)

\* path.dirname(loc)
Dirname(loc, s) ==
  LET stripped == StripTrailingSeps(loc, s)
      dir == DropLastSegment(stripped, s)
  IN  IF dir = <<>> THEN <<".">> ELSE StripTrailingSeps(dir, s)

\* path.resolve(dir, segment) for an absolute dir: on win32 every separator
\* becomes a backslash and a path without a drive gets the current one.
Resolve(dir, segment, s) ==
  LET conv == [k \in 1..Len(dir) |-> IF IsSep(dir[k], s) THEN s ELSE dir[k]]
      abs  == IF s = "\\" /\ (conv = <<>> \/ conv[1] # "C:") THEN <<"C:">> \o conv ELSE conv
  IN  abs \o <<s, segment>>

\* A normalisation that appends the separator whatever the location ends with.
NormalizeLocationAppend(loc, s) == loc \o <<s>>

\* loc.replace(/[\\\/]?$/, path.sep): the first match of the pattern is the
\* last character when that is a slash or a backslash, else the empty match
\* at the end of the string.
NormalizeLocation(loc, s) ==
  IF loc # <<>> /\ Last(loc) \in {"/", "\\"}
    THEN Front(loc) \o <<s>>
    ELSE loc \o <<s>>

(***************************************************************************)
(* The Identity Hasher.                                                    *)
(***************************************************************************)
\* getHashFrom(data): every datum is fed to the same hash stream, so the
\* digest is that of the concatenation of the data.
RECURSIVE getHashFrom(_)
getHashFrom(data) ==
  IF data = <<>> THEN "" ELSE Head(data) \o getHashFrom(Tail(data))

(***************************************************************************)
(* The resolver: what getStrictResolvedPattern answers for each pattern.   *)
(* A manifest has a name, a version, a main entry, peerDependencies (only  *)
(* the key set is used) and a _reference with a location and the           *)
(* dependencies patterns.  The names and versions are chosen so that two   *)
(* different (name, version) pairs can concatenate to the same string.     *)
(***************************************************************************)
Patterns == {"a@11", "a1@1", "a1@2", "b@1", "p@1", "p@2", "f@1"}

\* The manifest fields the builds below never vary.
Manifests ==
  [p \in Patterns |->
     CASE p = "a@11" -> [name |-> "a",  version |-> "11", main |-> "x.js",
                         location |-> <<"/", "c", "/", "x">>]
       [] p = "a1@1" -> [name |-> "a1", version |-> "1",  main |-> "y.js",
                         location |-> <<"/", "c", "/", "y", "/">>]
       [] p = "a1@2" -> [name |-> "a1", version |-> "2",  main |-> "y.js",
                         location |-> <<"/", "c", "/", "z">>]
       [] p = "b@1"  -> [name |-> "b",  version |-> "1",  main |-> "",
                         location |-> <<"/", "c", "/", "b", "\\">>]
       [] p = "p@1"  -> [name |-> "p",  version |-> "1",  main |-> "p1.js",
                         location |-> <<"/", "d", "/", "p">>]
       [] p = "p@2"  -> [name |-> "p",  version |-> "2",  main |-> "p2.js",
                         location |-> <<"/", "d", "/", "q">>]
       [] p = "f@1"  -> [name |-> "f",  version |-> "1",  main |-> "",
                         location |-> <<"/", "d", "/", "f">>]]

\* The ways the resolver can fail to give pattern "f@1" a usable package.
FailKinds == {"nopkg", "noref", "noloc", "noversion"}

\* The seed lists and the dependencies lists the builds are run on.
SeedChoices ==
  { <<>>, <<"a@11">>, <<"a1@1">>, <<"a@11", "a1@1">>, <<"a1@1", "a@11">>,
    <<"f@1", "a@11">>, <<"a@11", "f@1">>, <<"b@1">>, <<"b@1", "a@11">>,
    <<"p@1", "p@2">>, <<"p@2", "p@1">>, <<"p@1", "b@1">>, <<"b@1", "p@1">>,
    <<"a@11", "a@11">>, <<"a@11", "a1@2">> }
DepsChoices(p) ==
  CASE p = "a@11" -> { <<>>, <<"b@1">>, <<"b@1", "p@2">>, <<"p@2", "b@1">>,
                       <<"p@1", "p@2">> }
    [] p = "a1@1" -> { <<>>, <<"b@1">>, <<"b@1", "p@1">>, <<"p@1", "b@1">> }
    [] p = "a1@2" -> { <<>>, <<"b@1", "p@1">> }
    [] p = "b@1"  -> { <<>>, <<"a@11">>, <<"p@1">>, <<"f@1", "a@11">> }
    [] OTHER      -> { <<>> }
PeersChoices(p) ==
  CASE p \in {"a@11", "a1@1", "b@1"} -> { {}, {"p"} }
    [] p = "p@1"                     -> { {}, {"b"} }
    [] OTHER                         -> { {} }

\* The patterns a build starting from seeds can hand to the resolver.
RECURSIVE ReachableFrom(_, _)
ReachableFrom(set, deps) ==
  LET next == set \cup UNION {{deps[p][k] : k \in 1..Len(deps[p])} : p \in set}
  IN  IF next = set THEN set ELSE ReachableFrom(next, deps)
Range(s) == {s[k] : k \in 1..Len(s)}

\* The resolver for one choice of dependencies, peers, locations and failure
\* kind of "f@1".
MakeResolver(deps, peers, locs, kind) ==
  [p \in Patterns |->
     [pkg              |-> ~(p = "f@1" /\ kind = "nopkg"),
      name             |-> Manifests[p].name,
      version          |-> IF p = "f@1" /\ kind = "noversion"
                             THEN "" ELSE Manifests[p].version,
      main             |-> Manifests[p].main,
      peerDependencies |-> peers[p],
      hasReference     |-> ~(p = "f@1" /\ kind = "noref"),
      location         |-> IF p = "f@1" /\ kind = "noloc" THEN <<>> ELSE locs[p],
      dependencies     |-> deps[p]]]

(***************************************************************************)
(* getResolverEntry and the locals of visit.                               *)
(***************************************************************************)
\* getResolverEntry(pattern): "throw" when getStrictResolvedPattern yields
\* no manifest (pkg._reference is then a TypeError), "null" when the
\* manifest has no _reference or no location, "entry" otherwise.
getResolverEntry(p) ==
  LET pkg == resolver[p]
  IN  IF ~pkg.pkg THEN "throw"
      ELSE IF ~pkg.hasReference THEN "null"
      ELSE IF pkg.location = <<>> THEN "null"
      ELSE "entry"

\* The activation record of one visit call: its arguments, its two Maps,
\* the loop it is in and the position in it, and, while it awaits the visit
\* of an entry's dependencies, that entry's key and peer names.
Frame(patterns, parentData) ==
  [seedPatterns     |-> patterns,
   parentData       |-> parentData,
   resolutions      |-> EmptyMap,
   locations        |-> EmptyMap,
   pass             |-> 1,
   i                |-> 1,
   packageName      |-> "",
   packageReference |-> "",
   peerDependencies |-> {}]

top == stack[Len(stack)]
SetTop(f) == [stack EXCEPT ![Len(stack)] = f]
pattern == top.seedPatterns[top.i]
InLoop(pass) ==
  /\ status = "running"
  /\ stack # <<>>
  /\ top.pass = pass
  /\ top.i <= Len(top.seedPatterns)

\* The digest a package with peer dependencies gets under parentData.
VirtualHash(parentData, pkg) ==
  getHashFrom(parentData \o <<pkg.name, pkg.version>>)
\* An alias that gets another name when fs.symlink made that alias before.
VirtualLocationFresh(loc, hash) ==
  LET newLoc == Resolve(Dirname(loc, sep), "pnp-" \o hash, sep) IN
  IF <<loc, newLoc>> \in symlinks
    THEN Resolve(Dirname(loc, sep), "pnp-" \o hash \o "-1", sep)
    ELSE newLoc

\* path.resolve(path.dirname(loc), `pnp-${hash}`)
VirtualLocation(loc, hash) == Resolve(Dirname(loc, sep), "pnp-" \o hash, sep)
\* `pnp:${hash}`
VirtualReference(hash) == "pnp:" \o hash

\* The positions of (name, reference) in the store.
StoreIndexes(store, name, reference) ==
  {k \in 1..Len(store) : store[k].name = name /\ store[k].reference = reference}
\* A visit that never finds a package registered.
StoreHasNever(store, name, reference) == FALSE
\* packageInformationStores.get(name) and .get(reference) both find something.
StoreHas(store, name, reference) == StoreIndexes(store, name, reference) # {}

\* ref.dependencies.filter(...): the patterns visit recurses on.
directDependencies(pkg) ==
  SelectSeq(pkg.dependencies,
            LAMBDA d : ~resolver[d].pkg \/ resolver[d].name \notin pkg.peerDependencies)

\* A visit that hands down its own parentData extended with the entry's key.
ChildParentDataFullChain(parentData, packageName, packageReference) ==
  parentData \o <<packageName, packageReference>>

\* The parentData visit hands to the visit of an entry's dependencies.
ChildParentData(parentData, packageName, packageReference) ==
  <<packageName, packageReference>>

\* A peer injection loop without its test: a peer name the scope does not
\* resolve is set to the undefined reference.
InjectPeersAlways(packageDependencies, peerDependencies, resolutions) ==
  [n \in (DOMAIN packageDependencies) \cup peerDependencies |->
     IF n \in peerDependencies
       THEN IF MapHas(resolutions, n) THEN resolutions[n] ELSE "<undefined>"
       ELSE packageDependencies[n]]

\* A visit without the peer injection loop.
InjectPeersNone(packageDependencies, peerDependencies, resolutions) ==
  packageDependencies

\* The peer injection loop: packageDependencies after every peer name that
\* resolutions knows has been set.
RECURSIVE InjectPeers(_, _, _)
InjectPeers(packageDependencies, peerDependencies, resolutions) ==
  IF peerDependencies = {} THEN packageDependencies
  ELSE LET dependencyName == CHOOSE n \in peerDependencies : TRUE
           rest == peerDependencies \ {dependencyName}
       IN  IF MapHas(resolutions, dependencyName) /\ resolutions[dependencyName] # ""
             THEN InjectPeers(MapSet(packageDependencies, dependencyName,
                                     resolutions[dependencyName]), rest, resolutions)
             ELSE InjectPeers(packageDependencies, rest, resolutions)

(***************************************************************************)
(* Pass 1 of visit: the reference and the location of every pattern.       *)
(***************************************************************************)
\* getResolverEntry throws: the build is rejected.
Pass1Throw ==
  /\ InLoop(1)
  /\ getResolverEntry(pattern) = "throw"
  /\ status' = "error"
  /\ UNCHANGED <<pnpApi, output, previous, sep, resolver, seedPatterns, lockfileFolder, stack,
                 packageInformationStores, created, symlinks,
                 locatorsByLocations, sortedLengths, location, match>>

\* No entry: continue.
Pass1Skip ==
  /\ InLoop(1)
  /\ getResolverEntry(pattern) = "null"
  /\ stack' = SetTop([top EXCEPT !.i = @ + 1])
  /\ UNCHANGED <<pnpApi, output, previous, sep, resolver, seedPatterns, lockfileFolder,
                 packageInformationStores, created, symlinks, status,
                 locatorsByLocations, sortedLengths, location, match>>

\* A pass 1 that records the reference of a package and not its location.
Pass1RecordNoLocation ==
  /\ InLoop(1)
  /\ getResolverEntry(pattern) = "entry"
  /\ LET pkg == resolver[pattern] IN
     /\ pkg.peerDependencies = {}
     /\ stack' = SetTop([top EXCEPT
                           !.resolutions = MapSet(@, pkg.name, pkg.version),
                           !.i = @ + 1])
  /\ UNCHANGED <<pnpApi, output, previous, sep, resolver, seedPatterns, lockfileFolder,
                 packageInformationStores, created, symlinks, status,
                 locatorsByLocations, sortedLengths, location, match>>

\* A package without peer dependencies: its version and its own location.
Pass1Record ==
  /\ InLoop(1)
  /\ getResolverEntry(pattern) = "entry"
  /\ LET pkg == resolver[pattern] IN
     /\ pkg.peerDependencies = {}
     /\ stack' = SetTop([top EXCEPT
                           !.resolutions = MapSet(@, pkg.name, pkg.version),
                           !.locations = MapSet(@, pkg.name, pkg.location),
                           !.i = @ + 1])
  /\ UNCHANGED <<pnpApi, output, previous, sep, resolver, seedPatterns, lockfileFolder,
                 packageInformationStores, created, symlinks, status,
                 locatorsByLocations, sortedLengths, location, match>>

\* A package with peer dependencies: a virtual reference and an alias.
Pass1Virtual ==
  /\ InLoop(1)
  /\ getResolverEntry(pattern) = "entry"
  /\ LET pkg == resolver[pattern]
         hash == VirtualHash(top.parentData, pkg)
         newLoc == VirtualLocation(pkg.location, hash)
     IN
     /\ pkg.peerDependencies # {}
     /\ symlinks' = symlinks \cup {<<pkg.location, newLoc>>}
     /\ stack' = SetTop([top EXCEPT
                           !.resolutions = MapSet(@, pkg.name, VirtualReference(hash)),
                           !.locations = MapSet(@, pkg.name, newLoc),
                           !.i = @ + 1])
  /\ UNCHANGED <<pnpApi, output, previous, sep, resolver, seedPatterns, lockfileFolder,
                 packageInformationStores, created, status,
                 locatorsByLocations, sortedLengths, location, match>>

\* A pass 1 that goes on with the virtual reference when fs.symlink rejects.
Pass1SymlinkIgnored ==
  /\ InLoop(1)
  /\ getResolverEntry(pattern) = "entry"
  /\ LET pkg == resolver[pattern]
         hash == VirtualHash(top.parentData, pkg)
         newLoc == VirtualLocation(pkg.location, hash)
     IN
     /\ pkg.peerDependencies # {}
     /\ stack' = SetTop([top EXCEPT
                           !.resolutions = MapSet(@, pkg.name, VirtualReference(hash)),
                           !.locations = MapSet(@, pkg.name, newLoc),
                           !.i = @ + 1])
  /\ UNCHANGED <<pnpApi, output, previous, sep, resolver, seedPatterns, lockfileFolder,
                 packageInformationStores, created, symlinks, status,
                 locatorsByLocations, sortedLengths, location, match>>

\* fs.symlink rejects: the build is rejected.
Pass1SymlinkFails ==
  /\ InLoop(1)
  /\ getResolverEntry(pattern) = "entry"
  /\ resolver[pattern].peerDependencies # {}
  /\ status' = "error"
  /\ UNCHANGED <<pnpApi, output, previous, sep, resolver, seedPatterns, lockfileFolder, stack,
                 packageInformationStores, created, symlinks,
                 locatorsByLocations, sortedLengths, location, match>>

\* The first loop is over: the second one starts.
Pass1Done ==
  /\ status = "running"
  /\ stack # <<>>
  /\ top.pass = 1
  /\ top.i > Len(top.seedPatterns)
  /\ stack' = SetTop([top EXCEPT !.pass = 2, !.i = 1])
  /\ UNCHANGED <<pnpApi, output, previous, sep, resolver, seedPatterns, lockfileFolder,
                 packageInformationStores, created, symlinks, status,
                 locatorsByLocations, sortedLengths, location, match>>

(***************************************************************************)
(* Pass 2 of visit: insertion into the store and recursion.                *)
(***************************************************************************)
\* Both invariant(...) calls of pass 2 pass: pass 1 left a truthy reference
\* and a truthy location under the package's name.
PrePassComputed(frame, pkg) ==
  /\ MapHas(frame.resolutions, pkg.name)
  /\ frame.resolutions[pkg.name] # ""
  /\ MapHas(frame.locations, pkg.name)
  /\ frame.locations[pkg.name] # <<>>

\* The packageInformation visit builds for a pattern's package.
NewPackageInformation(pkg, packageReference, loc) ==
  [name                |-> pkg.name,
   reference           |-> packageReference,
   packageMainEntry    |-> pkg.main,
   packageLocation     |-> NormalizeLocation(loc, sep),
   packageDependencies |-> EmptyMap]

\* No entry: continue.
Pass2Skip ==
  /\ InLoop(2)
  /\ getResolverEntry(pattern) # "entry"
  /\ IF getResolverEntry(pattern) = "throw"
       THEN status' = "error" /\ UNCHANGED stack
       ELSE stack' = SetTop([top EXCEPT !.i = @ + 1]) /\ UNCHANGED status
  /\ UNCHANGED <<pnpApi, output, previous, sep, resolver, seedPatterns, lockfileFolder,
                 packageInformationStores, created, symlinks,
                 locatorsByLocations, sortedLengths, location, match>>

\* One of the two invariant(...) calls fails: the build is rejected.
Pass2InvariantFails ==
  /\ InLoop(2)
  /\ getResolverEntry(pattern) = "entry"
  /\ ~PrePassComputed(top, resolver[pattern])
  /\ status' = "error"
  /\ UNCHANGED <<pnpApi, output, previous, sep, resolver, seedPatterns, lockfileFolder, stack,
                 packageInformationStores, created, symlinks,
                 locatorsByLocations, sortedLengths, location, match>>

\* (name, reference) is registered already: continue.
Pass2Hit ==
  /\ InLoop(2)
  /\ getResolverEntry(pattern) = "entry"
  /\ LET pkg == resolver[pattern] IN
     /\ PrePassComputed(top, pkg)
     /\ StoreHas(packageInformationStores, pkg.name, top.resolutions[pkg.name])
  /\ stack' = SetTop([top EXCEPT !.i = @ + 1])
  /\ UNCHANGED <<pnpApi, output, previous, sep, resolver, seedPatterns, lockfileFolder,
                 packageInformationStores, created, symlinks, status,
                 locatorsByLocations, sortedLengths, location, match>>

\* A pass 2 that visits the direct dependencies first and registers the
\* entry only when that visit is back.
Pass2RecurseFirst ==
  /\ InLoop(2)
  /\ getResolverEntry(pattern) = "entry"
  /\ Len(stack) < MaxDepth
  /\ LET pkg == resolver[pattern] IN
     /\ PrePassComputed(top, pkg)
     /\ LET packageReference == top.resolutions[pkg.name] IN
        /\ ~StoreHas(packageInformationStores, pkg.name, packageReference)
        /\ stack' = Append(SetTop([top EXCEPT
                                     !.packageName = pkg.name,
                                     !.packageReference = packageReference,
                                     !.peerDependencies = pkg.peerDependencies]),
                           Frame(directDependencies(pkg),
                                 ChildParentData(top.parentData, pkg.name,
                                                 packageReference)))
  /\ UNCHANGED <<pnpApi, output, previous, sep, resolver, seedPatterns, lockfileFolder,
                 packageInformationStores, created, symlinks, status,
                 locatorsByLocations, sortedLengths, location, match>>

\* (name, reference) is new: register it, then visit its direct dependencies.
Pass2Insert ==
  /\ InLoop(2)
  /\ getResolverEntry(pattern) = "entry"
  /\ Len(stack) < MaxDepth
  /\ LET pkg == resolver[pattern] IN
     /\ PrePassComputed(top, pkg)
     /\ LET packageReference == top.resolutions[pkg.name]
            loc == top.locations[pkg.name]
        IN
        /\ ~StoreHas(packageInformationStores, pkg.name, packageReference)
        /\ packageInformationStores' =
             Append(packageInformationStores,
                    NewPackageInformation(pkg, packageReference, loc))
        /\ created' = Append(created, [pattern     |-> pattern,
                                       seedPatterns |-> top.seedPatterns,
                                       parentData  |-> top.parentData,
                                       resolutions |-> top.resolutions,
                                       depth       |-> Len(stack)])
        /\ stack' = Append(SetTop([top EXCEPT
                                     !.packageName = pkg.name,
                                     !.packageReference = packageReference,
                                     !.peerDependencies = pkg.peerDependencies]),
                           Frame(directDependencies(pkg),
                                 ChildParentData(top.parentData, pkg.name,
                                                 packageReference)))
  /\ UNCHANGED <<pnpApi, output, previous, sep, resolver, seedPatterns, lockfileFolder, symlinks, status,
                 locatorsByLocations, sortedLengths, location, match>>

\* The model follows MaxDepth nested visits and no more.
Pass2TooDeep ==
  /\ InLoop(2)
  /\ getResolverEntry(pattern) = "entry"
  /\ Len(stack) >= MaxDepth
  /\ LET pkg == resolver[pattern] IN
     /\ PrePassComputed(top, pkg)
     /\ ~StoreHas(packageInformationStores, pkg.name, top.resolutions[pkg.name])
  /\ status' = "depth_exceeded"
  /\ UNCHANGED <<pnpApi, output, previous, sep, resolver, seedPatterns, lockfileFolder, stack,
                 packageInformationStores, created, symlinks,
                 locatorsByLocations, sortedLengths, location, match>>

\* The visit of an entry's dependencies returns its resolutions: they become
\* the entry's packageDependencies, the peer dependencies are injected, and
\* the caller's loop goes on.
VisitReturns ==
  /\ status = "running"
  /\ Len(stack) > 1
  /\ top.pass = 2
  /\ top.i > Len(top.seedPatterns)
  /\ LET caller == stack[Len(stack) - 1]
         k == CHOOSE k \in StoreIndexes(packageInformationStores,
                                        caller.packageName, caller.packageReference) : TRUE
     IN
     /\ packageInformationStores' =
          [packageInformationStores EXCEPT
             ![k].packageDependencies =
                InjectPeers(top.resolutions, caller.peerDependencies, caller.resolutions)]
     /\ stack' = [SubSeq(stack, 1, Len(stack) - 1) EXCEPT
                    ![Len(stack) - 1] = [caller EXCEPT !.i = @ + 1,
                                                       !.packageName = "",
                                                       !.packageReference = "",
                                                       !.peerDependencies = {}]]
  /\ UNCHANGED <<pnpApi, output, previous, sep, resolver, seedPatterns, lockfileFolder, created, symlinks, status,
                 locatorsByLocations, sortedLengths, location, match>>

\* A root entry that drops what the top-level visit returned.
RootPackageInformationEmpty(resolutions) ==
  [name                |-> Null,
   reference           |-> Null,
   packageMainEntry    |-> Null,
   packageLocation     |-> NormalizeLocation(lockfileFolder, sep),
   packageDependencies |-> EmptyMap]

\* The entry of the project itself.
RootPackageInformation(resolutions) ==
  [name                |-> Null,
   reference           |-> Null,
   packageMainEntry    |-> Null,
   packageLocation     |-> NormalizeLocation(lockfileFolder, sep),
   packageDependencies |-> resolutions]

\* The top-level visit returns: getPackageInformationStores sets the root
\* entry under (null, null) and returns the store.
RootReturns ==
  /\ status = "running"
  /\ Len(stack) = 1
  /\ top.pass = 2
  /\ top.i > Len(top.seedPatterns)
  /\ packageInformationStores' =
       Append(packageInformationStores, RootPackageInformation(top.resolutions))
  /\ stack' = <<>>
  /\ status' = "done"
  /\ UNCHANGED <<pnpApi, output, previous, sep, resolver, seedPatterns, lockfileFolder, created, symlinks,
                 locatorsByLocations, sortedLengths, location, match>>

(***************************************************************************)
(* generateMaps and generateFindPackageLocator.                            *)
(***************************************************************************)
\* The order in which a "for ... of" over the Map of Maps meets the entries:
\* names in the order of their first insertion, references likewise.
RECURSIVE IterationOrder(_)
IterationOrder(store) ==
  IF store = <<>> THEN <<>>
  ELSE LET n == Head(store).name
       IN  SelectSeq(store, LAMBDA e : e.name = n)
             \o IterationOrder(SelectSeq(store, LAMBDA e : e.name # n))

\* The second element of an entry of locatorsByLocations.
Locator(e) ==
  IF e.name # Null THEN [name |-> e.name, reference |-> e.reference]
  ELSE topLevelLocator

\* The Map the emitted "new Map([...])" builds: of two pairs with the same
\* location the later one stays.  JSON.stringify writes each string and
\* each locator as a literal that evaluates to the same value.
LocatorsByLocations(store) ==
  LET it == IterationOrder(store)
      LastAt(l) == CHOOSE k \in 1..Len(it) :
                     /\ it[k].packageLocation = l
                     /\ \A j \in (k + 1)..Len(it) : it[j].packageLocation # l
  IN  [l \in {it[k].packageLocation : k \in 1..Len(it)} |-> Locator(it[LastAt(l)])]

\* The keys of the lengths Map, in insertion order.
RECURSIVE DistinctLengths(_, _)
DistinctLengths(it, seen) ==
  IF it = <<>> THEN <<>>
  ELSE LET n == Len(Head(it).packageLocation)
       IN  IF n \in seen THEN DistinctLengths(Tail(it), seen)
           ELSE <<n>> \o DistinctLengths(Tail(it), seen \cup {n})

\* lengths.get(n): how many entries have a location of length n.
LengthCount(store, n) ==
  Cardinality({k \in 1..Len(store) : Len(store[k].packageLocation) = n})

\* Does a come before b under the comparator (a, b) => b[1] - a[1]?
TestedBefore(store, a, b) == LengthCount(store, a) >= LengthCount(store, b)

\* Array.prototype.sort with that comparator; equal counts keep their order.
RECURSIVE SortLengths(_, _)
SortLengths(store, ls) ==
  IF ls = <<>> THEN <<>>
  ELSE LET sorted == SortLengths(store, Front(ls))
           x == Last(ls)
           n == Cardinality({k \in 1..Len(sorted) : TestedBefore(store, sorted[k], x)})
       IN  SubSeq(sorted, 1, n) \o <<x>> \o SubSeq(sorted, n + 1, Len(sorted))

SortedLengths(store) ==
  SortLengths(store, DistinctLengths(IterationOrder(store), {}))

\* A findPackageLocator that compares a registered location without its last
\* character, so that "/a" matches "/ab/".
RECURSIVE findPackageLocatorPartial(_, _, _, _)
findPackageLocatorPartial(path, lengths, byLocations, s) ==
  IF lengths = <<>> THEN NoLocator
  ELSE LET length == Head(lengths)
           keys == {l \in DOMAIN byLocations :
                      /\ Len(l) = length
                      /\ Len(path) >= length - 1
                      /\ SubSeq(l, 1, length - 1) = SubSeq(path, 1, length - 1)}
       IN  IF keys # {}
             THEN byLocations[CHOOSE l \in keys : TRUE]
             ELSE findPackageLocatorPartial(path, Tail(lengths), byLocations, s)

\* The emitted findPackageLocator: one test per length, in order.
RECURSIVE findPackageLocator(_, _, _, _)
findPackageLocator(path, lengths, byLocations, s) ==
  IF lengths = <<>> THEN NoLocator
  ELSE LET length == Head(lengths)
       IN  IF /\ Len(path) >= length
              /\ path[length] = s
              /\ MapHas(byLocations, SubSeq(path, 1, length))
             THEN byLocations[SubSeq(path, 1, length)]
             ELSE findPackageLocator(path, Tail(lengths), byLocations, s)

(***************************************************************************)
(* The text generatePnpMap returns.  A text is a sequence of pieces; the   *)
(* static tables are one piece, kept as the values their literals denote   *)
(* (no character of a name, a reference or a location of these builds is   *)
(* special to JSON.stringify or to the replacement string of replace).     *)
(***************************************************************************)
\* The marker pnpApi.replace looks for.
Marker == "$$SETUP_STATIC_TABLES();"
NoTables == [stores |-> <<>>, locators |-> <<>>, lengths |-> <<>>]
\* A piece of template text.
Text(t) == [text |-> t, tables |-> NoTables]
\* Where generateMaps leaves packageMainEntry out of the literal.
Omitted == "<omitted>"
\* No text: generatePnpMap has not returned.
NoOutput == <<>>

\* The entry literal generateMaps writes: a falsy packageMainEntry is left out.
EmittedEntry(e) ==
  [e EXCEPT !.packageMainEntry = IF @ \in {"", Null} THEN Omitted ELSE @]

\* generateMaps(store) + generateFindPackageLocator(store): the store literal,
\* the pairs of the inverse map and the length tests, each in emission order.
SetupStaticTables(store) ==
  LET it == IterationOrder(store) IN
  [stores   |-> [k \in 1..Len(it) |-> EmittedEntry(it[k])],
   locators |-> [k \in 1..Len(it) |-> <<it[k].packageLocation, Locator(it[k])>>],
   lengths  |-> SortedLengths(store)]

\* pnpApi.replace(/\$\$SETUP_STATIC_TABLES\(\);/, setupStaticTables): the
\* first match is replaced; without a match the template comes back as it is.
Replace(template, tables) ==
  LET at == {k \in 1..Len(template) : template[k] = Text(Marker)} IN
  IF at = {} THEN template
  ELSE [k \in 1..Len(template) |->
          IF k = CHOOSE j \in at : \A i \in at : j <= i
            THEN [text |-> "", tables |-> tables] ELSE template[k]]

\* The text holds the static tables.
Spliced(text) == \E k \in 1..Len(text) : text[k].tables # NoTables

\* generatePnpMap bakes the static tables from the finished store, splices
\* them into the template and returns the text.
GenerateMaps ==
  /\ status = "done"
  /\ locatorsByLocations' = LocatorsByLocations(packageInformationStores)
  /\ sortedLengths' = SortedLengths(packageInformationStores)
  /\ output' = Replace(pnpApi, SetupStaticTables(packageInformationStores))
  /\ status' = "generated"
  /\ UNCHANGED <<pnpApi, previous, sep, resolver, seedPatterns, lockfileFolder, stack,
                 packageInformationStores, created, symlinks, location, match>>

\* A call of the emitted findPackageLocator.  A call reads the tables and
\* changes nothing, so one call per run reaches every state a call can reach.
FindPackageLocator(path) ==
  /\ status = "generated"
  /\ Spliced(output)
  /\ location = <<>>
  /\ location' = path
  /\ match' = findPackageLocator(path, sortedLengths, locatorsByLocations, sep)
  /\ UNCHANGED <<pnpApi, output, previous, sep, resolver, seedPatterns, lockfileFolder, stack,
                 packageInformationStores, created, symlinks, status,
                 locatorsByLocations, sortedLengths>>

\* The paths looked up after a build: a file in each registered location and
\* each registered location without its last character.
BuildPaths ==
  UNION {{packageInformationStores[k].packageLocation \o <<"i">>,
          Front(packageInformationStores[k].packageLocation)} :
         k \in 1..Len(packageInformationStores)}

\* No call before this one.
NoRun == [packageInformationStores |-> <<>>, output |-> NoOutput]

\* generatePnpMap is called once more with the same arguments, on the file
\* system the first call left.
Rerun ==
  /\ status = "generated"
  /\ location = <<>>
  /\ previous = NoRun
  /\ previous' = [packageInformationStores |-> packageInformationStores,
                  output |-> output]
  /\ stack' = <<Frame(seedPatterns, <<>>)>>
  /\ packageInformationStores' = <<>>
  /\ created' = <<>>
  /\ status' = "running"
  /\ locatorsByLocations' = EmptyMap
  /\ sortedLengths' = <<>>
  /\ output' = NoOutput
  /\ UNCHANGED <<pnpApi, sep, resolver, seedPatterns, lockfileFolder, symlinks,
                 location, match>>

(***************************************************************************)
(* Init: the state when getPackageInformationStores calls visit(seedPatterns).*)
(***************************************************************************)
Init ==
  /\ sep \in {"/", "\\"}
  /\ seedPatterns \in SeedChoices
  /\ lockfileFolder = <<"/", "r">>
  /\ \E dx \in DepsChoices("a@11"), dy \in DepsChoices("a1@1"), dz \in DepsChoices("a1@2"),
        db \in DepsChoices("b@1"),
        px \in PeersChoices("a@11"), py \in PeersChoices("a1@1"), pz \in PeersChoices("a1@2"),
        pb \in PeersChoices("b@1"), pp \in PeersChoices("p@1"), kind \in FailKinds :
       LET deps  == [p \in Patterns |->
                       CASE p = "a@11" -> dx [] p = "a1@1" -> dy [] p = "a1@2" -> dz
                         [] p = "b@1" -> db [] OTHER -> <<>>]
           peers == [p \in Patterns |->
                       CASE p = "a@11" -> px [] p = "a1@1" -> py [] p = "a1@2" -> pz
                         [] p = "b@1" -> pb [] p = "p@1" -> pp [] OTHER -> {}]
           locs  == [p \in Patterns |-> Manifests[p].location]
           reach == ReachableFrom(Range(seedPatterns), deps)
       IN
       \* what the build never asks the resolver about is left at its default
       /\ \A p \in Patterns \ reach : deps[p] = <<>> /\ peers[p] = {}
       /\ ("f@1" \notin reach) => kind = "noref"
       \* the builds with an unusable package run on posix
       /\ ("f@1" \in reach) => sep = "/"
       /\ resolver = MakeResolver(deps, peers, locs, kind)
  /\ stack = <<Frame(seedPatterns, <<>>)>>
  /\ packageInformationStores = <<>>
  /\ created = <<>>
  /\ symlinks = {}
  /\ status = "running"
  /\ locatorsByLocations = EmptyMap
  /\ sortedLengths = <<>>
  /\ location = <<>>
  /\ match = NoLocator
  /\ pnpApi = <<Text("head"), Text(Marker), Text("tail")>>
  /\ output = NoOutput
  /\ previous = NoRun

Next ==
  \/ Pass1Throw
  \/ Pass1Skip
  \/ Pass1Record
  \/ Pass1Virtual
  \/ Pass1SymlinkFails
  \/ Pass1Done
  \/ Pass2Skip
  \/ Pass2InvariantFails
  \/ Pass2Hit
  \/ Pass2Insert
  \/ Pass2TooDeep
  \/ VisitReturns
  \/ RootReturns
  \/ GenerateMaps
  \/ \E path \in BuildPaths : FindPackageLocator(path)
  \/ Rerun
Spec == Init /\ [][Next]_vars

(***************************************************************************)
(* Lookups on their own: the store of a finished build of two packages     *)
(* without dependencies, over a choice of locations, and every short path. *)
(***************************************************************************)
\* The locations the resolver and fs.realpath report in these builds.
LocationChoices(s) ==
  { <<s, "a">>, <<s, "a", "/">>, <<s, "b", "\\">>, <<s, "a", "b">>,
    <<s, "a", s, "a">>, <<s, "a", s, "b">>, <<s, "a", s, "b", "/">>,
    <<s, "b", s, "a">> }
LockfileFolderChoices(s) == { <<s, "a">>, <<s, "b">>, <<s, "r">> }

\* Every path of at most MaxPathLen characters that starts at the root.
LookupPaths(s) ==
  UNION {{<<s>> \o q : q \in [1..n -> {s, "a", "b"}]} : n \in 0..(MaxPathLen - 1)}

\* The templates: the marker once, not at all, twice.
TemplateChoices ==
  { <<Text("head"), Text(Marker), Text("tail")>>,
    <<Text("head"), Text("tail")>>,
    <<Text(Marker), Text("mid"), Text(Marker)>> }

LookupInit ==
  /\ sep \in {"/", "\\"}
  /\ seedPatterns = <<"a@11", "b@1">>
  /\ lockfileFolder \in LockfileFolderChoices(sep)
  /\ \E la \in LocationChoices(sep), lb \in LocationChoices(sep) :
       LET locs == [p \in Patterns |->
                      CASE p = "a@11" -> la [] p = "b@1" -> lb
                        [] OTHER -> Manifests[p].location]
       IN
       \* three directories
       /\ Cardinality({NormalizeLocation(la, sep), NormalizeLocation(lb, sep),
                       NormalizeLocation(lockfileFolder, sep)}) = 3
       /\ resolver = MakeResolver([p \in Patterns |-> <<>>], [p \in Patterns |-> {}],
                                  locs, "noref")
  /\ LET resolutions == [n \in {"a", "b"} |-> IF n = "a" THEN "11" ELSE "1"] IN
     /\ packageInformationStores =
          << NewPackageInformation(resolver["a@11"], "11", resolver["a@11"].location),
             NewPackageInformation(resolver["b@1"], "1", resolver["b@1"].location),
             RootPackageInformation(resolutions) >>
     /\ created = << [pattern |-> "a@11", seedPatterns |-> seedPatterns,
                      parentData |-> <<>>,
                      resolutions |-> resolutions, depth |-> 1],
                     [pattern |-> "b@1", seedPatterns |-> seedPatterns,
                      parentData |-> <<>>,
                      resolutions |-> resolutions, depth |-> 1] >>
  /\ stack = <<>>
  /\ symlinks = {}
  /\ status = "done"
  /\ locatorsByLocations = EmptyMap
  /\ sortedLengths = <<>>
  /\ location = <<>>
  /\ match = NoLocator
  /\ pnpApi \in TemplateChoices
  /\ output = NoOutput
  /\ previous = NoRun

LookupNext ==
  \/ GenerateMaps
  \/ \E path \in LookupPaths(sep) : FindPackageLocator(path)

LookupSpec == LookupInit /\ [][LookupNext]_vars

(***************************************************************************)
(* The shape of the dependency graph.                                      *)
(***************************************************************************)
\* The patterns a package's dependencies name.
Deps(p) == Range(resolver[p].dependencies)
\* A -> B -> A
OnCycle(A, B) == A # B /\ B \in Deps(A) /\ A \in Deps(B)
\* The build can reach pattern p from the seed patterns.
Reached(p) ==
  p \in ReachableFrom(Range(seedPatterns), [q \in Patterns |-> resolver[q].dependencies])
\* The patterns of packages that declare peer dependencies.
PeerPatterns == {p \in Patterns : resolver[p].peerDependencies # {}}
\* Some dependency cycle goes through packages with peer dependencies only.
PeerOnlyCycle ==
  LET within == [q \in Patterns |->
                   IF q \in PeerPatterns
                     THEN SelectSeq(resolver[q].dependencies, LAMBDA d : d \in PeerPatterns)
                     ELSE <<>>]
  IN  \E p \in PeerPatterns : p \in ReachableFrom(Range(within[p]), within)

(***************************************************************************)
(* The claims.                                                             *)
(***************************************************************************)
\* getPackageInformationStores has returned.
Done == status \in {"done", "generated"}
\* The store entries visit built from pattern p's package.
EntriesFor(p) == {k \in 1..Len(created) : created[k].pattern = p}

Usable(p) == getResolverEntry(p) = "entry"
\* The key of the k-th store entry, as visit hands it down as parentData.
KeyOf(k) == <<packageInformationStores[k].name, packageInformationStores[k].reference>>

\* C2: when B declares the peer dependency P and is a direct dependency of
\* two entries whose dependencies resolve P to different references, the
\* finished store holds two entries for B with different references, each
\* created under its own parent and with packageDependencies[P] as that
\* parent's dependencies resolve P.
C2_PeerVirtualizationDistinct ==
  Done =>
    \A B \in Patterns, k1, k2 \in 1..Len(created) :
      LET A1 == resolver[created[k1].pattern]
          A2 == resolver[created[k2].pattern]
          d1 == packageInformationStores[k1].packageDependencies
          d2 == packageInformationStores[k2].packageDependencies
      IN  \A P \in resolver[B].peerDependencies :
            (/\ k1 # k2
             /\ Usable(B)
             /\ B \in Range(directDependencies(A1))
             /\ B \in Range(directDependencies(A2))
             /\ \E q \in Range(directDependencies(A1)) : Usable(q) /\ resolver[q].name = P
             /\ \E q \in Range(directDependencies(A2)) : Usable(q) /\ resolver[q].name = P
             /\ MapHas(d1, P) /\ MapHas(d2, P)
             /\ d1[P] # d2[P])
            => \E j1, j2 \in 1..Len(created) :
                 /\ packageInformationStores[j1].name = resolver[B].name
                 /\ packageInformationStores[j2].name = resolver[B].name
                 /\ packageInformationStores[j1].reference
                      # packageInformationStores[j2].reference
                 /\ created[j1].parentData = KeyOf(k1)
                 /\ created[j2].parentData = KeyOf(k2)
                 /\ MapHas(packageInformationStores[j1].packageDependencies, P)
                 /\ MapHas(packageInformationStores[j2].packageDependencies, P)
                 /\ packageInformationStores[j1].packageDependencies[P] = d1[P]
                 /\ packageInformationStores[j2].packageDependencies[P] = d2[P]

\* The visits of a finished build: the seed patterns of each and the
\* name -> reference map it returned (for the visit of an entry's
\* dependencies, what the entry's packageDependencies hold).
Scopes ==
  {[patterns |-> seedPatterns,
    map |-> packageInformationStores[Len(packageInformationStores)].packageDependencies]}
  \cup {[patterns |-> directDependencies(resolver[created[k].pattern]),
         map |-> packageInformationStores[k].packageDependencies] :
        k \in 1..Len(created)}

\* C3: no (name, reference) is in the finished store twice, and two seed
\* patterns, of any two visits, that resolve to the same name and version of
\* a package without peer dependencies are resolved to the same reference,
\* that of the one store entry.
C3_Deduplication ==
  Done =>
    /\ \A k1, k2 \in 1..Len(packageInformationStores) :
         KeyOf(k1) = KeyOf(k2) => k1 = k2
    /\ \A S1, S2 \in Scopes :
         \A p1 \in Range(S1.patterns), p2 \in Range(S2.patterns) :
           (/\ Usable(p1) /\ Usable(p2)
            /\ resolver[p1].name = resolver[p2].name
            /\ resolver[p1].version = resolver[p2].version
            /\ resolver[p1].peerDependencies = {}
            /\ resolver[p2].peerDependencies = {})
           => LET n == resolver[p1].name IN
              /\ MapHas(S1.map, n) /\ MapHas(S2.map, n)
              /\ S1.map[n] = S2.map[n]
              /\ Cardinality(StoreIndexes(packageInformationStores, n, S1.map[n])) = 1

\* Location l is a prefix of path.
IsPrefix(l, path) == Len(l) <= Len(path) /\ SubSeq(path, 1, Len(l)) = l
\* The store entries whose packageLocation is a prefix of path.
PrefixEntries(path) ==
  {k \in 1..Len(packageInformationStores) :
     IsPrefix(packageInformationStores[k].packageLocation, path)}
\* The locator of the longest registered packageLocation that is a prefix of
\* path, if there is one.
LongestPrefixLocator(path) ==
  IF PrefixEntries(path) = {} THEN NoLocator
  ELSE LET k == CHOOSE k \in PrefixEntries(path) :
                  \A j \in PrefixEntries(path) :
                    Len(packageInformationStores[j].packageLocation)
                      <= Len(packageInformationStores[k].packageLocation)
       IN  Locator(packageInformationStores[k])
\* findPackageLocator has been called on location.
Called == status = "generated" /\ location # <<>>

\* C4: for every path, findPackageLocator returns the locator of the longest
\* registered packageLocation that is a prefix of the path (null when there
\* is none), whatever the registered locations are.
C4_LongestPrefix == Called => match = LongestPrefixLocator(location)

\* C5: whenever findPackageLocator returns a locator, the packageLocation
\* registered for that locator ends with the separator and equals the first
\* characters of the path, character for character; and for a path that no
\* registered location is a prefix of, it returns null.
C5_PrefixMatchSoundness ==
  Called =>
    /\ match # NoLocator =>
         /\ \E k \in 1..Len(packageInformationStores) :
              Locator(packageInformationStores[k]) = match
         /\ \A k \in 1..Len(packageInformationStores) :
              Locator(packageInformationStores[k]) = match =>
                /\ Last(packageInformationStores[k].packageLocation) = sep
                /\ IsPrefix(packageInformationStores[k].packageLocation, location)
    /\ PrefixEntries(location) = {} => match = NoLocator

\* A lookup found the package of a path that goes on after the package's
\* location, while another registered location matches the path only up to
\* the middle of a segment.
C5_Witness ==
  /\ Called
  /\ match # NoLocator
  /\ \E k \in PrefixEntries(location) :
       Len(packageInformationStores[k].packageLocation) < Len(location)
  /\ \E k \in 1..Len(packageInformationStores) :
       /\ k \notin PrefixEntries(location)
       /\ IsPrefix(Front(packageInformationStores[k].packageLocation), location)

\* The chain from the root to the visit at depth d of the stack: the keys of
\* the entries the visits above it are building.
RECURSIVE AncestryChain(_)
AncestryChain(d) ==
  IF d <= 1 THEN <<>>
  ELSE AncestryChain(d - 1) \o <<stack[d - 1].packageName, stack[d - 1].packageReference>>
\* The key of the entry whose dependencies the visit at depth d is visiting.
ParentKey(d) ==
  IF d <= 1 THEN <<>>
  ELSE <<stack[d - 1].packageName, stack[d - 1].packageReference>>
\* Every reference the visit at depth d has computed is the version of a
\* usable seed pattern of that name or, when the package declares peer
\* dependencies, "pnp:" and the digest of chain, name and version.
ReferencesFrom(d, chain) ==
  \A n \in DOMAIN stack[d].resolutions :
    \E p \in Range(stack[d].seedPatterns) :
      /\ Usable(p)
      /\ resolver[p].name = n
      /\ stack[d].resolutions[n] =
           IF resolver[p].peerDependencies = {} THEN resolver[p].version
           ELSE "pnp:" \o getHashFrom(chain \o <<n, resolver[p].version>>)
\* The visit at depth d has computed a virtual reference.
HasVirtual(d) ==
  \E p \in Range(stack[d].seedPatterns) :
    /\ Usable(p)
    /\ resolver[p].peerDependencies # {}
    /\ MapHas(stack[d].resolutions, resolver[p].name)

\* C6, as stated: the virtual reference of a package with peer dependencies
\* is computed from the whole chain from the root to its position, each
\* visit passing its own chain extended with the entry's (name, reference).
C6_Original ==
  \A d \in 1..Len(stack) :
    /\ stack[d].parentData = AncestryChain(d)
    /\ ReferencesFrom(d, AncestryChain(d))

\* C6, amended: the virtual reference is computed from the (name, reference)
\* of the immediate parent entry alone (nothing for a seed pattern of the
\* project), and from the package's name and version.
C6_ParentOnly ==
  \A d \in 1..Len(stack) :
    /\ stack[d].parentData = ParentKey(d)
    /\ ReferencesFrom(d, ParentKey(d))

\* A visit three levels down has computed a virtual reference, and the
\* whole chain to it is longer than the parent's key.
C6_Witness ==
  /\ Len(stack) >= 3
  /\ HasVirtual(3)
  /\ AncestryChain(3) # ParentKey(3)

\* The usable patterns of a scope that resolve to name n, by position.
UsableAt(patterns, n) ==
  {k \in 1..Len(patterns) : Usable(patterns[k]) /\ resolver[patterns[k]].name = n}
\* The names the usable patterns of a scope resolve to.
ResolvedNames(patterns) ==
  {resolver[patterns[k]].name : k \in {j \in 1..Len(patterns) : Usable(patterns[j])}}
\* The final reference pass 1 leaves for name n in a scope: that of the last
\* usable pattern of that name.
ExpectedReference(patterns, parentData, n) ==
  LET last == CHOOSE k \in UsableAt(patterns, n) :
                \A j \in UsableAt(patterns, n) : j <= k
      pkg == resolver[patterns[last]]
  IN  IF pkg.peerDependencies = {} THEN pkg.version
      ELSE "pnp:" \o getHashFrom(parentData \o <<pkg.name, pkg.version>>)
\* The name -> reference map a visit of patterns under parentData returns.
ExpectedResolutions(patterns, parentData) ==
  [n \in ResolvedNames(patterns) |-> ExpectedReference(patterns, parentData, n)]

\* C7: for every entry created in a scope and every peer name P of its
\* package, the finished entry has packageDependencies[P] if and only if a
\* seed pattern of that scope resolved P, and then it is the final reference
\* pass 1 computed for P in that scope; and as long as the visit of the
\* entry's direct dependencies has not returned, nothing is injected.
C7_PeerInjection ==
  /\ Done =>
       \A k \in 1..Len(created) :
         \A P \in resolver[created[k].pattern].peerDependencies :
           LET deps == packageInformationStores[k].packageDependencies
               scope == created[k].seedPatterns
           IN  /\ MapHas(deps, P) <=> P \in ResolvedNames(scope)
               /\ MapHas(deps, P) =>
                    deps[P] = ExpectedReference(scope, created[k].parentData, P)
  /\ \A d \in 1..(Len(stack) - 1) :
       \A k \in StoreIndexes(packageInformationStores,
                             stack[d].packageName, stack[d].packageReference) :
         packageInformationStores[k].packageDependencies = EmptyMap

\* A finished build injected a virtual reference into one entry and left a
\* peer name that its scope does not resolve out of another.
C7_Witness ==
  /\ Done
  /\ \E k \in 1..Len(created) :
       \E P \in resolver[created[k].pattern].peerDependencies :
         /\ MapHas(packageInformationStores[k].packageDependencies, P)
         /\ packageInformationStores[k].packageDependencies[P]
              \notin {Manifests[q].version : q \in Patterns}
  /\ \E k \in 1..Len(created) :
       \E P \in resolver[created[k].pattern].peerDependencies :
         ~MapHas(packageInformationStores[k].packageDependencies, P)

\* C8: looking up the packageLocation of any store entry in the location
\* index of generateMaps yields the locator of that entry.
C8_LocationIndexInverse ==
  status = "generated" =>
    \A k \in 1..Len(packageInformationStores) :
      /\ MapHas(locatorsByLocations, packageInformationStores[k].packageLocation)
      /\ locatorsByLocations[packageInformationStores[k].packageLocation]
           = Locator(packageInformationStores[k])

\* C9: a seed pattern without a manifest, without a reference object or
\* without a location is skipped without error: the build is never rejected
\* at such a pattern, no entry is created from it, and the finished root
\* entry maps every name the other seed patterns resolve.
C9_SkippedWithoutError ==
  /\ (status = "error" /\ top.i <= Len(top.seedPatterns)) => Usable(pattern)
  /\ \A k \in 1..Len(created) : Usable(created[k].pattern)
  /\ Done =>
       DOMAIN packageInformationStores[Len(packageInformationStores)].packageDependencies
         = ResolvedNames(seedPatterns)

\* C10: the finished store has exactly one entry under the null name, with
\* the null reference, and its packageDependencies is the name -> reference
\* map of the seed patterns; while the visits run there is no entry under
\* the null name.
C10_RootConstruction ==
  /\ Done =>
       /\ Cardinality({k \in 1..Len(packageInformationStores) :
                         packageInformationStores[k].name = Null}) = 1
       /\ \E k \in 1..Len(packageInformationStores) :
            /\ packageInformationStores[k].name = Null
            /\ packageInformationStores[k].reference = Null
            /\ packageInformationStores[k].packageDependencies
                 = ExpectedResolutions(seedPatterns, <<>>)
  /\ ~Done => \A k \in 1..Len(packageInformationStores) :
                packageInformationStores[k].name # Null

\* A finished build whose root entry maps one seed name to a version and
\* another to a virtual reference.
C10_Witness ==
  /\ Done
  /\ LET root == packageInformationStores[Len(packageInformationStores)] IN
     /\ root.name = Null
     /\ \E n \in DOMAIN root.packageDependencies :
          root.packageDependencies[n] \in {Manifests[q].version : q \in Patterns}
     /\ \E n \in DOMAIN root.packageDependencies :
          root.packageDependencies[n] \notin {Manifests[q].version : q \in Patterns}

\* Location l ends with the separator, and with one only.
EndsWithOneSep(l) ==
  /\ l # <<>>
  /\ Last(l) = sep
  /\ Len(l) > 1 => l[Len(l) - 1] \notin {"/", "\\"}

MarkerMissing == \A k \in 1..Len(pnpApi) : pnpApi[k] # Text(Marker)

\* C12: when the template does not contain the marker, generatePnpMap fails
\* and produces no output: it never returns a text.
C12_MissingMarkerFails ==
  MarkerMissing => (status # "generated" /\ output = NoOutput)

AwaitedKey(d) == <<stack[d].packageName, stack[d].packageReference>>

\* C14: while the direct dependencies of an entry are visited, at any depth
\* below it, the entry is in the store; so no visit below it registers the
\* same (name, reference) and recurses into it again.
C14_InsertBeforeRecurse ==
  /\ \A d \in 1..(Len(stack) - 1) :
       StoreIndexes(packageInformationStores,
                    stack[d].packageName, stack[d].packageReference) # {}
  /\ \A d1, d2 \in 1..(Len(stack) - 1) :
       AwaitedKey(d1) = AwaitedKey(d2) => d1 = d2

\* Pass 2 of a visit reaches the (name, reference) of an entry whose
\* dependencies are being visited above it.
C14_Witness ==
  /\ InLoop(2)
  /\ Usable(pattern)
  /\ PrePassComputed(top, resolver[pattern])
  /\ \E d \in 1..(Len(stack) - 1) :
       AwaitedKey(d) = <<resolver[pattern].name, top.resolutions[resolver[pattern].name]>>

\* Pass 2 of the innermost visit is at a pattern whose (name, reference) is
\* in the store already.
AtHit ==
  /\ InLoop(2)
  /\ Usable(pattern)
  /\ PrePassComputed(top, resolver[pattern])
  /\ StoreIndexes(packageInformationStores, resolver[pattern].name,
                  top.resolutions[resolver[pattern].name]) # {}

\* C15: in every step of a build the store keeps every entry it has, under
\* the same (name, reference) and with the same packageLocation and
\* packageMainEntry, and only grows at its end; and the step pass 2 takes at
\* a (name, reference) that is in the store already changes nothing in it.
C15_AppendOnly ==
  [][previous' = previous =>
       /\ Len(packageInformationStores') >= Len(packageInformationStores)
       /\ \A k \in 1..Len(packageInformationStores) :
            /\ packageInformationStores'[k].name = packageInformationStores[k].name
            /\ packageInformationStores'[k].reference
                 = packageInformationStores[k].reference
            /\ packageInformationStores'[k].packageLocation
                 = packageInformationStores[k].packageLocation
            /\ packageInformationStores'[k].packageMainEntry
                 = packageInformationStores[k].packageMainEntry
       /\ AtHit => packageInformationStores' = packageInformationStores]_vars

\* Pass 2 is at a (name, reference) that an earlier visit, now over, put in
\* the store.
C15_Witness ==
  /\ AtHit
  /\ \A d \in 1..(Len(stack) - 1) :
       AwaitedKey(d) # <<resolver[pattern].name, top.resolutions[resolver[pattern].name]>>
  /\ Len(packageInformationStores) >= 2

\* The pattern of the entry the visit at depth d awaits the dependencies of.
AwaitedPattern(d) == stack[d].seedPatterns[stack[d].i]
\* Below the entry awaited at depth d1, through entries that all got a
\* virtual reference, the visit at depth d2 awaits an entry of the same
\* pattern again: every such round makes new references for the next one.
Pumping(d1, d2) ==
  /\ d1 < d2
  /\ AwaitedPattern(d1) = AwaitedPattern(d2)
  /\ \A d \in d1..d2 : stack[d].peerDependencies # {}

\* C16: visit terminates on every finite graph of packages, also when the
\* packages of a dependency cycle declare peer dependencies: no build needs
\* more nested visits than the model follows, and none visits a package
\* again and again below itself under ever new virtual references.
C16_VisitTerminates ==
  /\ status # "depth_exceeded"
  /\ \A d1, d2 \in 1..(Len(stack) - 1) : ~Pumping(d1, d2)

\* A reference that is no version of any package: "pnp:" and a digest.
IsVirtual(reference) ==
  reference \notin {resolver[q].version : q \in Patterns} \cup {Null}
\* fs.symlink has rejected in pass 1 of the innermost visit.
SymlinkFailed ==
  /\ status = "error"
  /\ top.pass = 1
  /\ top.i <= Len(top.seedPatterns)
  /\ Usable(pattern)
  /\ resolver[pattern].peerDependencies # {}

\* C17: every store entry with a virtual reference pnp:<digest> was made
\* after fs.symlink created the alias pnp-<digest> of a package of its scope,
\* and its location is that alias; and when fs.symlink rejects, the build is
\* rejected in pass 1 of that visit, before its pass 2 has made any entry, the
\* one of that pattern included.
C17_AliasBeforeInstance ==
  /\ \A k \in 1..Len(created) :
       IsVirtual(packageInformationStores[k].reference) =>
         \E l \in symlinks, p \in Range(created[k].seedPatterns) :
           LET hash == VirtualHash(created[k].parentData, resolver[p]) IN
           /\ Usable(p)
           /\ packageInformationStores[k].reference = "pnp:" \o hash
           /\ l[1] = resolver[p].location
           /\ Last(l[2]) = "pnp-" \o hash
           /\ NormalizeLocation(l[2], sep) = packageInformationStores[k].packageLocation
  /\ SymlinkFailed =>
       \A k \in 1..Len(created) :
         created[k].depth = Len(stack) => created[k].parentData # top.parentData

\* fs.symlink has rejected for a dependency of an entry that has a virtual
\* reference itself.
C17_Witness ==
  /\ SymlinkFailed
  /\ Len(stack) >= 2
  /\ \E k \in 1..Len(created) : IsVirtual(packageInformationStores[k].reference)

\* Every package visit does not skip has a version that is not empty (its
\* location is not empty, or visit would skip it).
VersionsNotEmpty == \A p \in Patterns : Usable(p) => resolver[p].version # ""

\* C18: when the packages have non-empty versions and locations, every
\* pattern that resolves in pass 2 finds the reference and the location that
\* pass 1 of the same visit recorded under the name of its package, and the
\* build is never rejected in pass 2.
C18_PrePassConsistent ==
  VersionsNotEmpty =>
    /\ (InLoop(2) /\ Usable(pattern)) =>
         /\ PrePassComputed(top, resolver[pattern])
         /\ top.resolutions[resolver[pattern].name]
              = ExpectedReference(top.seedPatterns, top.parentData, resolver[pattern].name)
    /\ ~(status = "error" /\ top.pass = 2)

\* Pass 2 is at the second pattern of a visit below the top-level one, and
\* that pattern got a virtual reference.
C18_Witness ==
  /\ VersionsNotEmpty
  /\ InLoop(2)
  /\ Len(stack) >= 2
  /\ top.i >= 2
  /\ Usable(pattern)
  /\ PrePassComputed(top, resolver[pattern])
  /\ IsVirtual(top.resolutions[resolver[pattern].name])

\* C19: when the build has finished, every dependencyName -> dependencyReference
\* pair of the packageDependencies of every store entry, the root entry
\* included, is the key of an entry of the store.
C19_ReferentialIntegrity ==
  Done =>
    \A k \in 1..Len(packageInformationStores) :
      \A n \in DOMAIN packageInformationStores[k].packageDependencies :
        StoreIndexes(packageInformationStores, n,
                     packageInformationStores[k].packageDependencies[n]) # {}

\* A finished store in which an entry depends on an entry with a virtual
\* reference through a peer dependency, and another entry declares a peer
\* dependency its scope does not resolve.
C19_Witness ==
  /\ Done
  /\ \E k \in 1..Len(created) :
       \E P \in resolver[created[k].pattern].peerDependencies :
         /\ MapHas(packageInformationStores[k].packageDependencies, P)
         /\ IsVirtual(packageInformationStores[k].packageDependencies[P])
  /\ \E k \in 1..Len(created) :
       \E P \in resolver[created[k].pattern].peerDependencies :
         P \notin ResolvedNames(created[k].seedPatterns)
  /\ Len(packageInformationStores) >= 4

\* The reference pass 1 computes for pattern p on its own, under parentData.
OwnReference(p, parentData) ==
  IF resolver[p].peerDependencies = {} THEN resolver[p].version
  ELSE VirtualReference(VirtualHash(parentData, resolver[p]))
\* The location pass 1 computes for pattern p on its own, under parentData.
OwnLocation(p, parentData) ==
  IF resolver[p].peerDependencies = {} THEN resolver[p].location
  ELSE VirtualLocation(resolver[p].location, VirtualHash(parentData, resolver[p]))

\* C20: every store entry inserted under (name, reference) has the
\* packageMainEntry and the packageLocation of one package of its scope whose
\* own reference is that reference, and the visit below it goes through the
\* dependencies of that same package, also when two patterns of the scope
\* resolve to one name with different versions.
C20_EntryDescriptorConsistent ==
  \A k \in 1..Len(created) :
    \E p \in Range(created[k].seedPatterns) :
      /\ Usable(p)
      /\ resolver[p].name = packageInformationStores[k].name
      /\ OwnReference(p, created[k].parentData) = packageInformationStores[k].reference
      /\ resolver[p].main = packageInformationStores[k].packageMainEntry
      /\ NormalizeLocation(OwnLocation(p, created[k].parentData), sep)
           = packageInformationStores[k].packageLocation
      /\ directDependencies(resolver[p]) = directDependencies(resolver[created[k].pattern])
====
